---------------------------- MODULE Spec2Model ----------------------------
(***************************************************************************)
(* GcsResourceReportPoller (src/ray/gcs/gcs_server/                        *)
(* gcs_resource_report_poller.cc): a bounded-concurrency periodic poller.  *)
(*                                                                         *)
(* Threads.  HandleNodeAdded / HandleNodeRemoved and the RPC completion    *)
(* callback run on the caller's (main) thread; Tick, the posted            *)
(* TryPullResourceReport and the posted NodeResourceReportReceived run on  *)
(* the polling thread that drives polling_service_.  nodes_,               *)
(* to_pull_queue_ and inflight_pulls_ are only touched under mutex_, so    *)
(* every handler is one atomic action.                                     *)
(*                                                                         *)
(* PullState objects are heap objects shared through shared_ptr; they are  *)
(* modelled as object identities 1..MaxStates, so that two PullStates of   *)
(* the same node_id (Remove followed by Add) are different objects.        *)
(*                                                                         *)
(* Undefined behaviour.  TryPullResourceReport binds `auto &to_pull` to    *)
(* to_pull_queue_.front() and keeps using it after pop_front() destroyed   *)
(* that element (lines 82-95); the handler posted at line 110 captures the *)
(* enclosing closure's `state` by reference and may run after that closure *)
(* is gone.  Each such read is a nondeterministic choice between the two   *)
(* outcomes a build produces: the destroyed storage still holds the old    *)
(* pointer (the read behaves like a copy), or the process faults.          *)
(***************************************************************************)
EXTENDS Integers, Sequences, FiniteSets, TLC

\* ---------------------------------------------------------------- bounds
MaxNodes == 2
MaxStates == 2
MaxTime == 2
MaxConcurrentPulls == 2
MaxPollPeriod == 1

\* nodes_.count(id) == 0: no PullState registered under the id
NoState == 0
\* state->last_pull_time = -1, the "never pulled" sentinel
NeverPulled == -1

NodeIds == 1..MaxNodes
StateIds == 1..MaxStates

VARIABLES
  polling_service_,       \* "constructed" | "running" | "stopped"
  max_concurrent_pulls_,  \* constructor argument
  poll_period_ms_,        \* RayConfig gcs_resource_report_poll_period_ms
  now,                    \* absl::GetCurrentTimeNanos()
  nodes_,                 \* node id -> PullState object, or NoState
  to_pull_queue_,         \* deque of PullState objects
  inflight_pulls_,        \* the admission counter
  heap,                   \* PullState object -> its fields
  nstates,                \* number of PullState objects created so far
  rpcs,                   \* per PullState, the RequestResourceReport calls
                          \*   dispatched for it: [sent, posted], the calls
                          \*   still outstanding and the calls whose success
                          \*   callback posted NodeResourceReportReceived
  posted_try,             \* TryPullResourceReport handlers posted, not yet run
  reports,                \* per PullState, the last UpdateFromResourceReport
                          \*   fed by its pulls: "none" | "registered" | "removed"
  fault,                  \* "none" | "check_failed" | "segfault"
  hist                    \* per object, what has happened to it (observation
                          \*   only, never read by an action's guard)

vars == << polling_service_, max_concurrent_pulls_, poll_period_ms_, now, nodes_,
           to_pull_queue_, inflight_pulls_, heap, nstates, rpcs, posted_try,
           reports, fault, hist >>

config == << max_concurrent_pulls_, poll_period_ms_ >>

Range(s) == { s[i] : i \in DOMAIN s }

BlankState == [ node_id |-> 0, last_pull_time |-> NeverPulled, next_pull_time |-> 0 ]

BlankHist == [ dispatched |-> FALSE, done_time |-> NeverPulled, removed |-> "no" ]

\* ------------------------------------------------------------ observation
\* the object is referenced by a dispatched call whose handler has not run
InFlight(o) == rpcs[o].sent + rpcs[o].posted > 0

\* the object's RPC itself is outstanding
OnTheWire(o) == rpcs[o].sent > 0

Queued(o) == o \in Range(to_pull_queue_)

RECURSIVE Sum(_, _)
Sum(f, S) == IF S = {} THEN 0
             ELSE LET x == CHOOSE y \in S : TRUE IN f[x] + Sum(f, S \ {x})

\* RPCs sent and not yet answered
PullsOnTheWire == Sum([ o \in StateIds |-> rpcs[o].sent ], StateIds)

\* pulls dispatched whose completion handler has not run: on the wire, or
\* answered with the handler still posted
PullsNotHandled == Sum([ o \in StateIds |-> rpcs[o].sent + rpcs[o].posted ], StateIds)

\* the PullStates created for node n
StatesOf(n) == { o \in 1..nstates : heap[o].node_id = n }

QueuedPeer(n) == \E o \in StatesOf(n) : Queued(o)

InFlightPeer(n) == \E o \in StatesOf(n) : InFlight(o)

\* a PullState that was dispatched and that nothing refers to any more:
\* it is neither in the queue nor held by a pull in flight
Dropped(o) ==
  /\ hist[o].dispatched
  /\ ~Queued(o)
  /\ ~InFlight(o)

\* where the object is when HandleNodeRemoved unregisters it
WhereRemoved(o) ==
  IF Queued(o) THEN (IF hist[o].dispatched THEN "queued" ELSE "queued_new")
  ELSE IF InFlight(o) THEN "inflight"
  ELSE "idle"

\* ------------------------------------------------------------------ Init
Init ==
  /\ polling_service_ = "constructed"
  /\ max_concurrent_pulls_ \in 1..MaxConcurrentPulls
  /\ poll_period_ms_ \in 1..MaxPollPeriod
  /\ now = 0
  /\ nodes_ = [ n \in NodeIds |-> NoState ]
  /\ to_pull_queue_ = << >>
  /\ inflight_pulls_ = 0
  /\ heap = [ o \in StateIds |-> BlankState ]
  /\ nstates = 0
  /\ rpcs = [ o \in StateIds |-> [ sent |-> 0, posted |-> 0 ] ]
  /\ posted_try = 0
  /\ reports = [ o \in StateIds |-> "none" ]
  /\ fault = "none"
  /\ hist = [ o \in StateIds |-> BlankHist ]

\* --------------------------------------------------------- Start / Stop
Start ==
  /\ fault = "none"
  /\ polling_service_ = "constructed"
  /\ polling_service_' = "running"
  /\ UNCHANGED << config, now, nodes_, to_pull_queue_, inflight_pulls_, heap,
                  nstates, rpcs, posted_try, reports, fault, hist >>

Stop ==
  /\ fault = "none"
  /\ polling_service_ = "running"
  /\ polling_service_' = "stopped"
  /\ UNCHANGED << config, now, nodes_, to_pull_queue_, inflight_pulls_, heap,
                  nstates, rpcs, posted_try, reports, fault, hist >>

\* the clock is read by the handlers; it never goes back
AdvanceTime ==
  /\ fault = "none"
  /\ now < MaxTime
  /\ now' = now + 1
  /\ UNCHANGED << polling_service_, config, nodes_, to_pull_queue_, inflight_pulls_,
                  heap, nstates, rpcs, posted_try, reports, fault, hist >>

\* ------------------------------------------------------- HandleNodeAdded
\* a fresh PullState that is due only one poll period after the add
NewPullStateDueLater(n) ==
  [ node_id |-> n, last_pull_time |-> NeverPulled,
    next_pull_time |-> now + poll_period_ms_ ]

\* lines 46-54: the PullState HandleNodeAdded creates
NewPullState(n) ==
  [ node_id |-> n, last_pull_time |-> NeverPulled, next_pull_time |-> now ]

\* a variant that registers and queues the state before the RAY_CHECK runs
HandleNodeAddedLateCheck(n) ==
  /\ fault = "none"
  /\ IF nodes_[n] # NoState
       THEN /\ fault' = "check_failed"
            /\ to_pull_queue_' = << nodes_[n] >> \o to_pull_queue_
            /\ UNCHANGED << polling_service_, config, now, nodes_, inflight_pulls_,
                            heap, nstates, rpcs, posted_try, reports, hist >>
       ELSE /\ nstates < Len(heap)
            /\ LET state == nstates + 1 IN
                 /\ nstates' = state
                 /\ heap' = [ heap EXCEPT ![state] = NewPullState(n) ]
                 /\ nodes_' = [ nodes_ EXCEPT ![n] = state ]
                 /\ to_pull_queue_' = << state >> \o to_pull_queue_
            /\ posted_try' = posted_try + 1
            /\ UNCHANGED << polling_service_, config, now, inflight_pulls_, rpcs,
                            reports, fault, hist >>

HandleNodeAdded(n) ==
  /\ fault = "none"
  /\ IF nodes_[n] # NoState
       THEN \* RAY_CHECK(!nodes_.count(node_id)) aborts the process
            /\ fault' = "check_failed"
            /\ UNCHANGED << polling_service_, config, now, nodes_, to_pull_queue_,
                            inflight_pulls_, heap, nstates, rpcs, posted_try,
                            reports, hist >>
       ELSE /\ nstates < Len(heap)
            /\ LET state == nstates + 1 IN
                 /\ nstates' = state
                 /\ heap' = [ heap EXCEPT ![state] = NewPullState(n) ]
                 /\ nodes_' = [ nodes_ EXCEPT ![n] = state ]
                 /\ to_pull_queue_' = << state >> \o to_pull_queue_
            /\ posted_try' = posted_try + 1
            /\ UNCHANGED << polling_service_, config, now, inflight_pulls_, rpcs,
                            reports, fault, hist >>

\* ----------------------------------------------------- HandleNodeRemoved
\* a removal that also takes the peer's PullState out of the queue
HandleNodeRemovedPurgesQueue(n) ==
  /\ fault = "none"
  /\ nodes_' = [ nodes_ EXCEPT ![n] = NoState ]
  /\ to_pull_queue_' = SelectSeq(to_pull_queue_, LAMBDA o : o # nodes_[n])
  /\ hist' = IF nodes_[n] = NoState THEN hist
             ELSE [ hist EXCEPT ![nodes_[n]].removed = WhereRemoved(nodes_[n]) ]
  /\ UNCHANGED << polling_service_, config, now, inflight_pulls_,
                  heap, nstates, rpcs, posted_try, reports, fault >>

HandleNodeRemoved(n) ==
  /\ fault = "none"
  /\ nodes_' = [ nodes_ EXCEPT ![n] = NoState ]
  /\ hist' = IF nodes_[n] = NoState THEN hist
             ELSE [ hist EXCEPT ![nodes_[n]].removed = WhereRemoved(nodes_[n]) ]
  /\ UNCHANGED << polling_service_, config, now, to_pull_queue_, inflight_pulls_,
                  heap, nstates, rpcs, posted_try, reports, fault >>


\* ------------------------------------------------- TryPullResourceReport
\* the loop's admission test, with <= in place of <
HasCapacityOffByOne(inflight) == inflight <= max_concurrent_pulls_

\* line 81: inflight_pulls_ < max_concurrent_pulls_
HasCapacity(inflight) == inflight < max_concurrent_pulls_

\* line 83: the test that ends the loop at the front entry
FrontStopsLoop(cur_time, state) == cur_time > heap[state].next_pull_time

\* a registry test that takes every dequeued entry for a live peer
NodeKnownAlways(state) == TRUE

\* line 89: nodes_.count(to_pull->node_id)
NodeKnown(state) == nodes_[heap[state].node_id] # NoState

\* PullResourceReport: count the pull and send the RPC; the callback owns a
\* copy of the shared_ptr
PullResourceReport(inflight, calls, h, state) ==
  [ inflight |-> inflight + 1,
    calls |-> [ calls EXCEPT ![state].sent = @ + 1 ],
    h |-> [ h EXCEPT ![state].dispatched = TRUE ] ]

\* The while loop of TryPullResourceReport from the state (queue, inflight,
\* calls, h).  fault_at counts the pops still to go before the read through
\* the dangling `to_pull` faults (negative: it never does).
RECURSIVE TryPullLoop(_, _, _, _, _, _)
TryPullLoop(cur_time, queue, inflight, calls, h, fault_at) ==
  IF ~(HasCapacity(inflight) /\ queue # << >>)
    THEN [ queue |-> queue, inflight |-> inflight, calls |-> calls, h |-> h,
           faulted |-> FALSE ]
  ELSE LET to_pull == Head(queue) IN
    IF FrontStopsLoop(cur_time, to_pull)
      THEN [ queue |-> queue, inflight |-> inflight, calls |-> calls, h |-> h,
             faulted |-> FALSE ]
    ELSE IF fault_at = 0
      THEN \* pop_front() ran, the next read of to_pull faults
           [ queue |-> Tail(queue), inflight |-> inflight, calls |-> calls,
             h |-> h, faulted |-> TRUE ]
    ELSE IF ~NodeKnown(to_pull)
      THEN TryPullLoop(cur_time, Tail(queue), inflight, calls, h, fault_at - 1)
    ELSE LET d == PullResourceReport(inflight, calls, h, to_pull) IN
           TryPullLoop(cur_time, Tail(queue), d.inflight, d.calls, d.h, fault_at - 1)

TryPullResourceReport(fault_at) ==
  LET r == TryPullLoop(now, to_pull_queue_, inflight_pulls_, rpcs, hist, fault_at) IN
    /\ to_pull_queue_' = r.queue
    /\ inflight_pulls_' = r.inflight
    /\ rpcs' = r.calls
    /\ hist' = r.h
    /\ fault' = IF r.faulted THEN "segfault" ELSE fault

\* the pops after which the dangling read may fault; NoFault: it never does
NoFault == -1

FaultPoints == NoFault..(MaxStates - 1)

\* a polling service whose handlers go on running after stop()
ServiceRunsAfterStop == polling_service_ # "constructed"

\* lines 22-26, 34-36: the handlers of polling_service_ run on the thread
\* Start() made, from run() until Stop() has stopped the service and joined
ServiceRuns == polling_service_ = "running"

\* Tick, the periodic timer on polling_service_ (line 29)
TickWith(fault_at) ==
  /\ fault = "none"
  /\ ServiceRuns
  /\ TryPullResourceReport(fault_at)
  /\ UNCHANGED << polling_service_, config, now, nodes_, heap, nstates, posted_try,
                  reports >>

Tick == \E fault_at \in FaultPoints : TickWith(fault_at)

\* the handler HandleNodeAdded posted (line 59)
RunPostedTryWith(fault_at) ==
  /\ fault = "none"
  /\ ServiceRuns
  /\ posted_try > 0
  /\ posted_try' = posted_try - 1
  /\ TryPullResourceReport(fault_at)
  /\ UNCHANGED << polling_service_, config, now, nodes_, heap, nstates, reports >>

RunPostedTry == \E fault_at \in FaultPoints : RunPostedTryWith(fault_at)

\* ------------------------------------------------------- RPC completion
\* lines 105-110: status.ok(): the report goes to the resource manager and
\* the completion handler is posted to the polling service
RpcSuccess(state) ==
  /\ fault = "none"
  /\ rpcs[state].sent > 0
  /\ reports' = [ reports EXCEPT ![state] =
        IF hist[state].removed = "no" THEN "registered" ELSE "removed" ]
  /\ rpcs' = [ rpcs EXCEPT ![state].sent = @ - 1, ![state].posted = @ + 1 ]
  /\ UNCHANGED << polling_service_, config, now, nodes_, to_pull_queue_,
                  inflight_pulls_, heap, nstates, posted_try, fault, hist >>

\* a failed pull whose completion handler is posted like a successful one
RpcFailureRequeues(state) ==
  /\ fault = "none"
  /\ rpcs[state].sent > 0
  /\ rpcs' = [ rpcs EXCEPT ![state].sent = @ - 1, ![state].posted = @ + 1 ]
  /\ UNCHANGED << polling_service_, config, now, nodes_, to_pull_queue_,
                  inflight_pulls_, heap, nstates, posted_try, reports, fault, hist >>

\* lines 111-114: the failure is logged, nothing is posted
RpcFailure(state) ==
  /\ fault = "none"
  /\ rpcs[state].sent > 0
  /\ rpcs' = [ rpcs EXCEPT ![state].sent = @ - 1 ]
  /\ UNCHANGED << polling_service_, config, now, nodes_, to_pull_queue_,
                  inflight_pulls_, heap, nstates, posted_try, reports, fault, hist >>

\* ------------------------------------------- NodeResourceReportReceived
\* a completion handler that re-inserts the PullState at the front
NodeResourceReportReceivedPushFront(state) ==
  /\ fault = "none"
  /\ ServiceRuns
  /\ rpcs[state].posted > 0
  /\ inflight_pulls_' = inflight_pulls_ - 1
  /\ rpcs' = [ rpcs EXCEPT ![state].posted = @ - 1 ]
  /\ IF nodes_[heap[state].node_id] = NoState
       THEN UNCHANGED << heap, to_pull_queue_, hist >>
       ELSE /\ heap' = [ heap EXCEPT ![state].next_pull_time = now + poll_period_ms_ ]
            /\ to_pull_queue_' = <<state>> \o to_pull_queue_
            /\ hist' = [ hist EXCEPT ![state].done_time = now ]
  /\ UNCHANGED << polling_service_, config, now, nodes_, nstates, posted_try,
                  reports, fault >>

\* lines 118-130
NodeResourceReportReceived(state) ==
  /\ fault = "none"
  /\ ServiceRuns
  /\ rpcs[state].posted > 0
  /\ inflight_pulls_' = inflight_pulls_ - 1
  /\ rpcs' = [ rpcs EXCEPT ![state].posted = @ - 1 ]
  /\ IF nodes_[heap[state].node_id] = NoState
       THEN UNCHANGED << heap, to_pull_queue_, hist >>
       ELSE /\ heap' = [ heap EXCEPT ![state].next_pull_time = now + poll_period_ms_ ]
            /\ to_pull_queue_' = Append(to_pull_queue_, state)
            /\ hist' = [ hist EXCEPT ![state].done_time = now ]
  /\ UNCHANGED << polling_service_, config, now, nodes_, nstates, posted_try,
                  reports, fault >>

\* the posted handler reads `state` through the reference captured at line
\* 110 after the callback's closure was destroyed, and the process faults
NodeResourceReportReceivedFaults(state) ==
  /\ fault = "none"
  /\ ServiceRuns
  /\ rpcs[state].posted > 0
  /\ inflight_pulls_' = inflight_pulls_ - 1
  /\ rpcs' = [ rpcs EXCEPT ![state].posted = @ - 1 ]
  /\ fault' = "segfault"
  /\ UNCHANGED << polling_service_, config, now, nodes_, to_pull_queue_, heap,
                  nstates, posted_try, reports, hist >>

\* ------------------------------------------------------------------ Spec
Next ==
  \/ Start
  \/ Stop
  \/ AdvanceTime
  \/ \E n \in NodeIds : HandleNodeAdded(n)
  \/ \E n \in NodeIds : HandleNodeRemoved(n)
  \/ Tick
  \/ RunPostedTry
  \/ \E state \in StateIds : RpcSuccess(state)
  \/ \E state \in StateIds : RpcFailure(state)
  \/ \E state \in StateIds : NodeResourceReportReceived(state)
  \/ \E state \in StateIds : NodeResourceReportReceivedFaults(state)

Spec == Init /\ [][Next]_vars

\* ------------------------------------------------------------- LiveSpec
\* The runs the liveness claim is about: peers are added and stay, no RAY_CHECK
\* fails, no read through a dangling reference faults, every RPC succeeds.
\* The timer keeps ticking, posted handlers run, RPCs are answered and the
\* clock advances (up to MaxTime), hence the weak fairness of each.
LiveAdd(n) == nodes_[n] = NoState /\ HandleNodeAdded(n)

LiveTick == TickWith(NoFault)

LivePostedTry == RunPostedTryWith(NoFault)

LiveNext ==
  \/ Start
  \/ AdvanceTime
  \/ \E n \in NodeIds : LiveAdd(n)
  \/ LiveTick
  \/ LivePostedTry
  \/ \E state \in StateIds : RpcSuccess(state)
  \/ \E state \in StateIds : NodeResourceReportReceived(state)

LiveFairness ==
  /\ WF_vars(Start)
  /\ WF_vars(AdvanceTime)
  /\ WF_vars(LiveTick)
  /\ WF_vars(LivePostedTry)
  /\ \A state \in StateIds : WF_vars(RpcSuccess(state))
  /\ \A state \in StateIds : WF_vars(NodeResourceReportReceived(state))

LiveSpec == Init /\ [][LiveNext]_vars /\ LiveFairness


\* ================================================================ claims

\* C1: in every reachable state the number of pulls dispatched and not yet
\* completed (RPCs on the wire, and also counting those whose completion
\* handler has not run yet) is at most max_concurrent_pulls.
C1_ConcurrentPullsBounded ==
  /\ PullsOnTheWire <= max_concurrent_pulls_
  /\ PullsNotHandled <= max_concurrent_pulls_

\* all capacity is on the wire while a registered entry the due-time test
\* lets through waits at the front of the queue
C1_Witness ==
  /\ fault = "none"
  /\ PullsOnTheWire = max_concurrent_pulls_
  /\ to_pull_queue_ # << >>
  /\ ~FrontStopsLoop(now, Head(to_pull_queue_))
  /\ nodes_[heap[Head(to_pull_queue_)].node_id] = Head(to_pull_queue_)

\* C2: inflight_pulls_ equals the number of dispatched pulls that have not
\* completed (success or failure), so it is 0 once all of them completed.
C2_CounterIsOutstandingPulls == inflight_pulls_ = PullsNotHandled

\* C3: for every peer_id at most one pull is in flight at any time, also
\* across Remove followed by Add of the same peer_id.
C3_OnePullPerPeer ==
  \A n \in NodeIds :
    Sum([ o \in StateIds |-> IF o \in StatesOf(n) THEN rpcs[o].sent ELSE 0 ],
        StateIds) <= 1

\* C4: between operations every peer in the registry is either referenced by
\* the queue or in flight (handler not yet run), never neither, never both.
C4_QueuedXorInFlight ==
  fault = "none" =>
    \A n \in NodeIds :
      nodes_[n] # NoState => (QueuedPeer(n) /\ ~InFlightPeer(n))
                             \/ (~QueuedPeer(n) /\ InFlightPeer(n))

\* C5: the result of a pull whose peer was removed while it was in flight
\* is not applied to the resource-report sink and its PullState is never
\* put back into the queue.
C5_RemovedInFlightDiscarded ==
  \A o \in StateIds :
    hist[o].removed = "inflight" => reports[o] # "removed" /\ ~Queued(o)

\* C6: a PullState whose peer is removed while it is queued and was never
\* dispatched is never dispatched.
C6_RemovedWhileQueuedNeverDispatched ==
  \A o \in StateIds : hist[o].removed = "queued_new" => ~hist[o].dispatched

\* C7: after a pull of a peer completed successfully at t0, the next dispatch
\* of that peer happens at a time t >= t0 + poll_period.
C7_NextDispatchAfterPollPeriod ==
  [][ \A o \in StateIds :
        (hist[o].done_time # NeverPulled /\ rpcs'[o].sent > rpcs[o].sent)
          => now >= hist[o].done_time + poll_period_ms_ ]_vars

\* C8: under fair ticking, advancing time and every RPC succeeding, every
\* peer that stays in the registry is dispatched again and again.
C8_LivePeerPolledAgainAndAgain ==
  \A n \in NodeIds :
    [](nodes_[n] # NoState => <>(\E o \in StatesOf(n) : OnTheWire(o)))

\* C9: when the scheduling attempt posted by HandleNodeAdded runs with
\* inflight_pulls_ < max_concurrent_pulls_ and the new peer (at the front of
\* the queue, never dispatched) still registered, and the process does not
\* fault, that attempt dispatches the new peer.
C9_PostedAttemptDispatchesNewPeer ==
  [][ ( /\ posted_try' < posted_try
        /\ fault' = "none"
        /\ HasCapacity(inflight_pulls_)
        /\ to_pull_queue_ # << >>
        /\ nodes_[heap[Head(to_pull_queue_)].node_id] = Head(to_pull_queue_)
        /\ ~hist[Head(to_pull_queue_)].dispatched )
      => rpcs'[Head(to_pull_queue_)].sent > 0 ]_vars

\* C10: HandleNodeAdded for a peer_id already in the registry aborts
\* (RAY_CHECK) and leaves registry, queue, counter, PullStates and posted
\* scheduling attempts as they were.
C10_DuplicateAddAborts ==
  [][ \A n \in NodeIds :
        (nodes_[n] # NoState /\ HandleNodeAdded(n))
          => /\ fault' = "check_failed"
             /\ UNCHANGED << nodes_, to_pull_queue_, inflight_pulls_, heap,
                             nstates, rpcs, posted_try >> ]_vars

\* a duplicate add was rejected while its peer had an entry in the queue
C10_Witness ==
  /\ fault = "check_failed"
  /\ \E n \in NodeIds : nodes_[n] # NoState /\ Queued(nodes_[n])

\* ---------------------------------------------------------------- C11
\* C11: HandleNodeAdded for a peer_id that the registry does not hold
\* (never added, or added and since removed) succeeds: it creates a
\* PullState no one referred to before, due now and never pulled, registers
\* it under that peer_id and puts it at the front of the queue; every other
\* registry entry is left as it was, so a peer_id has one entry at most.
C11_AddCreatesFreshStateAtFront ==
  [][ \A n \in NodeIds :
        (HandleNodeAdded(n) /\ nodes_[n] = NoState) =>
          LET state == nodes_'[n] IN
            /\ fault' = "none"
            /\ state \in StateIds
            /\ \A m \in NodeIds : nodes_[m] # state
            /\ ~Queued(state) /\ ~InFlight(state)
            /\ heap[state] = BlankState
            /\ heap'[state].node_id = n
            /\ heap'[state].next_pull_time = now
            /\ heap'[state].last_pull_time = NeverPulled
            /\ to_pull_queue_' = <<state>> \o to_pull_queue_
            /\ \A m \in NodeIds \ {n} : nodes_'[m] = nodes_[m]
            /\ \A o \in StateIds \ {state} : heap'[o] = heap[o] ]_vars

\* a peer was removed and added again: its new PullState is registered,
\* due at the time of the add, never pulled, and in front of the old one
C11_Witness ==
  \E n \in NodeIds : \E old \in StateIds :
    /\ nodes_[n] \in StateIds \ {old}
    /\ heap[old].node_id = n
    /\ hist[old].removed # "no"
    /\ heap[nodes_[n]].last_pull_time = NeverPulled
    /\ to_pull_queue_ # <<>>
    /\ Head(to_pull_queue_) = nodes_[n]
    /\ heap[nodes_[n]].next_pull_time = now
    /\ now > 0
    /\ fault = "none"

\* ---------------------------------------------------------------- C12
\* The run of three peers: a poller with room for two concurrent pulls, the
\* peers 1, 2, 3 (A, B, C) are added in that order, and the RPC client never
\* completes a pull. The adds interleave freely with the attempts they post,
\* with ticks and with the clock.
ScenarioPeers == 3

ScenarioInit ==
  /\ polling_service_ = "constructed"
  /\ max_concurrent_pulls_ = 2
  /\ poll_period_ms_ \in 1..MaxPollPeriod
  /\ now = 0
  /\ nodes_ = [ n \in 1..ScenarioPeers |-> NoState ]
  /\ to_pull_queue_ = << >>
  /\ inflight_pulls_ = 0
  /\ heap = [ o \in 1..ScenarioPeers |-> BlankState ]
  /\ nstates = 0
  /\ rpcs = [ o \in 1..ScenarioPeers |-> [ sent |-> 0, posted |-> 0 ] ]
  /\ posted_try = 0
  /\ reports = [ o \in 1..ScenarioPeers |-> "none" ]
  /\ fault = "none"
  /\ hist = [ o \in 1..ScenarioPeers |-> BlankHist ]

\* the next peer in the order A, B, C is added
ScenarioAdd ==
  /\ nstates < ScenarioPeers
  /\ HandleNodeAdded(nstates + 1)

ScenarioNext ==
  \/ Start
  \/ AdvanceTime
  \/ ScenarioAdd
  \/ Tick
  \/ RunPostedTry

ScenarioSpec == ScenarioInit /\ [][ScenarioNext]_vars

\* C12: in the run of three peers, whatever the interleaving, the peers
\* dispatched are exactly A and B: C is never dispatched while no pull
\* completes, and once the three adds and the attempts they posted are done,
\* A and B are in flight and C alone is left in the queue.
C12_FirstTwoPeersDispatched ==
  /\ ~hist[3].dispatched
  /\ ( /\ nstates = ScenarioPeers
       /\ polling_service_ = "running"
       /\ posted_try = 0
       /\ fault = "none" )
     => ( /\ hist[1].dispatched
          /\ hist[2].dispatched
          /\ to_pull_queue_ = <<3>> )

\* ---------------------------------------------------------------- C13
\* C13: Stop() itself cancels nothing: the pulls on the wire, the queue and
\* the counter are as before it. Once Stop() has returned the service stays
\* stopped and no pull is dispatched: no RPC is sent and no PullState becomes
\* dispatched, the counter keeps its value, no posted attempt and no posted
\* completion handler is consumed, and nothing leaves the queue; the queue
\* changes only by the push_front of a later HandleNodeAdded itself.
C13_NoDispatchAfterStop ==
  [][ /\ (polling_service_ = "running" /\ polling_service_' = "stopped") =>
           UNCHANGED << rpcs, to_pull_queue_, inflight_pulls_, nodes_, heap,
                        posted_try >>
      /\ polling_service_ = "stopped" =>
           /\ polling_service_' = "stopped"
           /\ inflight_pulls_' = inflight_pulls_
           /\ posted_try' >= posted_try
           /\ \A o \in StateIds :
                /\ rpcs'[o].sent <= rpcs[o].sent
                /\ rpcs'[o].posted >= rpcs[o].posted
                /\ hist'[o].dispatched = hist[o].dispatched
           /\ \/ to_pull_queue_' = to_pull_queue_
              \/ \E n \in NodeIds :
                   /\ HandleNodeAdded(n)
                   /\ to_pull_queue_' = <<nodes_'[n]>> \o to_pull_queue_ ]_vars

\* the service is stopped while an attempt is posted, a completion handler
\* is posted, a pull is still on the wire, and the queue's front entry is
\* one a running attempt would dispatch
C13_Witness ==
  /\ polling_service_ = "stopped"
  /\ fault = "none"
  /\ posted_try > 0
  /\ \E o \in StateIds : rpcs[o].posted > 0 \/ rpcs[o].sent > 0
  /\ to_pull_queue_ # << >>
  /\ HasCapacity(inflight_pulls_)
  /\ ~FrontStopsLoop(now, Head(to_pull_queue_))
  /\ NodeKnown(Head(to_pull_queue_))

\* ---------------------------------------------------------------- C14
\* C14: an attempt that enters the loop (room for a pull, queue not empty)
\* compares the front entry with the clock: if its next_pull_time is later
\* than now the loop stops and nothing is removed from the queue; if its
\* next_pull_time is now or earlier the entry is removed from the queue.
C14_NotYetDueStopsDueIsRemoved ==
  [][ ( /\ Tick \/ RunPostedTry
        /\ fault' = "none"
        /\ HasCapacity(inflight_pulls_)
        /\ to_pull_queue_ # << >> ) =>
        LET to_pull == Head(to_pull_queue_) IN
          /\ heap[to_pull].next_pull_time > now =>
               to_pull_queue_' = to_pull_queue_
          /\ heap[to_pull].next_pull_time <= now =>
               /\ Len(to_pull_queue_') < Len(to_pull_queue_)
               /\ \A i \in 1..Len(to_pull_queue_') :
                    to_pull_queue_'[i] # to_pull ]_vars

\* ---------------------------------------------------------------- C15
\* C15: a pull that completes with a failure leaves the queue and the
\* registry as they are, so its PullState is in neither the queue nor in
\* flight; and a PullState in that condition stays in it for ever: no later
\* tick, attempt or handler re-inserts or dispatches it. The peer is polled
\* again only through the new PullState of a later HandleNodeAdded.
C15_FailedPullNeverRequeued ==
  [][ \A o \in StateIds :
        /\ RpcFailure(o) =>
             /\ UNCHANGED << to_pull_queue_, nodes_, heap >>
             /\ Dropped(o)'
        /\ Dropped(o) =>
             /\ Dropped(o)'
             /\ rpcs'[o] = rpcs[o] ]_vars

\* a peer is registered with a PullState that was dispatched and is in
\* neither the queue nor in flight (its pull failed), the service runs with
\* room for a pull, and the clock has moved on since
C15_Witness ==
  \E o \in StateIds :
    /\ Dropped(o)
    /\ nodes_[heap[o].node_id] = o
    /\ ServiceRuns
    /\ fault = "none"
    /\ HasCapacity(inflight_pulls_)
    /\ now > 0

C17_RemoveOnlyErasesRegistryEntry ==
  [][ \A n \in NodeIds :
        HandleNodeRemoved(n) =>
          /\ nodes_'[n] = NoState
          /\ \A m \in NodeIds \ {n} : nodes_'[m] = nodes_[m]
          /\ nodes_[n] = NoState => UNCHANGED vars
          /\ UNCHANGED << to_pull_queue_, inflight_pulls_, heap, rpcs,
                          posted_try, reports, polling_service_, fault >> ]_vars

\* a peer was removed with its pull in flight: it is absent from the
\* registry while the pull is still outstanding and counted
C17_Witness ==
  \E o \in StateIds :
    /\ hist[o].removed = "inflight"
    /\ nodes_[heap[o].node_id] = NoState
    /\ InFlight(o)
    /\ inflight_pulls_ > 0
    /\ to_pull_queue_ # << >>
    /\ fault = "none"

\* ---------------------------------------------------------------- C18
\* C18: in every reachable state, if the entry at the front of the queue is
\* not yet due (its next_pull_time is later than now), no entry of the queue
\* is due: a due entry never sits behind a front entry that is not yet due.
C18_NoDueEntryBehindNotYetDueFront ==
  ( /\ to_pull_queue_ # << >>
    /\ heap[Head(to_pull_queue_)].next_pull_time > now ) =>
    \A i \in 1..Len(to_pull_queue_) :
      heap[to_pull_queue_[i]].next_pull_time > now

\* the queue holds two entries and the front one is not yet due
C18_Witness ==
  /\ Len(to_pull_queue_) >= 2
  /\ heap[Head(to_pull_queue_)].next_pull_time > now
  /\ fault = "none"

\* ---------------------------------------------------------------- C19
\* C19: the completion handler of a successful pull, run at time now for a
\* PullState whose peer_id is in the registry, sets next_pull_time to
\* now + poll_period, sets last_pull_time to now (it is no longer the
\* 'never' value) and inserts the PullState at the back of the queue.
C19_SuccessUpdatesTimesAndRequeues ==
  [][ \A state \in StateIds :
        ( /\ NodeResourceReportReceived(state)
          /\ nodes_[heap[state].node_id] # NoState ) =>
          /\ heap'[state].next_pull_time = now + poll_period_ms_
          /\ heap'[state].last_pull_time = now
          /\ heap'[state].last_pull_time # NeverPulled
          /\ to_pull_queue_' = Append(to_pull_queue_, state) ]_vars

\* ---------------------------------------------------------------- C20
\* C20 as stated: the queue holds at most one entry per peer_id, and no
\* PullState is at the same time in the queue and in flight.
C20_OneQueueEntryPerPeer ==
  /\ \A i, j \in 1..Len(to_pull_queue_) :
       i # j => heap[to_pull_queue_[i]].node_id # heap[to_pull_queue_[j]].node_id
  /\ \A o \in StateIds : ~(Queued(o) /\ InFlight(o))

\* C20, amended: the queue holds at most one entry per PullState, and no
\* PullState is at the same time in the queue and in flight. Two entries may
\* carry the same peer_id: then they are different PullStates, and one of
\* them at least belongs to a registration that HandleNodeRemoved has ended.
C20_OneQueueEntryPerPullState ==
  /\ \A i, j \in 1..Len(to_pull_queue_) :
       i # j =>
         /\ to_pull_queue_[i] # to_pull_queue_[j]
         /\ heap[to_pull_queue_[i]].node_id = heap[to_pull_queue_[j]].node_id =>
              \/ hist[to_pull_queue_[i]].removed # "no"
              \/ hist[to_pull_queue_[j]].removed # "no"
  /\ \A o \in StateIds : ~(Queued(o) /\ InFlight(o))

\* the queue holds two PullStates of one peer_id: the one of the current
\* registration in front of the one of the registration that was removed
C20_Witness ==
  /\ Len(to_pull_queue_) = 2
  /\ heap[to_pull_queue_[1]].node_id = heap[to_pull_queue_[2]].node_id
  /\ nodes_[heap[to_pull_queue_[1]].node_id] = to_pull_queue_[1]
  /\ fault = "none"

=============================================================================
